---- MODULE Spec2Model ----
(***************************************************************************)
(* StorageAdapter (src/database_solved.py): a key-value store whose        *)
(* entries are hash-verified JSON files, one per key, under a storage      *)
(* directory.  Writes are staged in an insertion-ordered dict and applied  *)
(* by commit().  is_circular_symlink (src/symlink_solved.py) walks a chain  *)
(* of symlinks in a directory and tells whether it comes back on itself.   *)
(*                                                                         *)
(* Texts are TLA+ strings.  SHA-256 is modelled as an injective function   *)
(* of the hashed bytes (the text "sha256:" followed by the bytes), so two  *)
(* inputs have the same digest exactly when their bytes are equal: the     *)
(* digest of key || value is the digest of the concatenated text.          *)
(***************************************************************************)
EXTENDS Naturals, Sequences, FiniteSets, TLC

\* ------------------------------------------------------------------ bounds
MaxPending == 2     \* staged operations held at once

\* The texts the checks draw keys and values from.  "a" || "bc" and "ab" || "c"
\* are the same bytes.
ClearKey == "__clear__"
Keys == {ClearKey, "a", "ab"}
Values == {"c", "bc"}

\* ------------------------------------------------------- Python's values
NoneV == "<None>"
TypeError == "<TypeError>"
AttributeError == "<AttributeError>"
NotADirectoryError == "<NotADirectoryError>"
Raises == {TypeError, AttributeError, NotADirectoryError}

\* A JSON field of a record: a text, a value that is no text, or no field.
Missing == "<missing>"
NonText == "<nontext>"

\* ------------------------------------------------------------ file system
\* What the storage path is.
PathKinds == {"absent", "dir", "file", "linkdir", "linkfile", "dangling"}

\* What a file under the storage directory holds.
NoFile == [t |-> "none", key |-> "", value |-> "", hash |-> ""]
Garbage == [t |-> "garbage", key |-> "", value |-> "", hash |-> ""]
NonObject == [t |-> "nonobj", key |-> "", value |-> "", hash |-> ""]
Obj(k, v, h) == [t |-> "obj", key |-> k, value |-> v, hash |-> h]

SHA256(bytes) == "sha256:" \o bytes

\* str(key) of a text key.
Str(key) == key

GetFilePath(key) == SHA256(Str(key))

ComputeValueHash(key, value) == SHA256(key \o value)

Paths == {GetFilePath(k) : k \in Keys}
EmptyDir == [p \in Paths |-> NoFile]

VARIABLES
    kind,        \* what the storage path is
    files,       \* the files seen through the storage path, by path
    pending,     \* _pending_operations, in insertion order
    scope,       \* "in" between __enter__ and __exit__, else "out"
    last,        \* the last call: its name, arguments and outcome
    base,        \* per key staged since the last commit call: its entry before
    intent,      \* what the caller has staged and not yet seen committed
    entryFiles,  \* the entries when the open scope was entered
    retry,       \* after a failed commit: what the batch's commit had to leave
    links,       \* the directory is_circular_symlink walks in, by name
    symlink,     \* is_circular_symlink: the argument
    current_path,\* is_circular_symlink: current_path
    visited,     \* is_circular_symlink: visited
    pc,          \* is_circular_symlink: where the call is
    result,      \* is_circular_symlink: what it returned or raised
    iters        \* is_circular_symlink: loop iterations begun

\* The state of a call of is_circular_symlink.
wvars == <<links, symlink, current_path, visited, pc, result, iters>>

vars == <<kind, files, pending, scope, last, base, intent, entryFiles, retry,
          links, symlink, current_path, visited, pc, result, iters>>

\* ------------------------------------------- the walked directory, at rest
\* The names in the walked directory.
Names == {"A", "B", "C"}

\* A path as pathlib writes it: the directory, `ups` times "/../<directory>",
\* and a name in it.
PathOf(ups, name) == [ups |-> ups, name |-> name]

\* What a name in the directory is: nothing, a real file or directory, or a
\* symlink with its target text: absolute, a bare name, or "../<dir>/<name>".
NoNode == [t |-> "missing", form |-> "", to |-> ""]
RealFile == [t |-> "file", form |-> "", to |-> ""]
Link(form, to) == [t |-> "link", form |-> form, to |-> to]

NoResult == "<running>"

\* No call of is_circular_symlink is under way.
WalkIdle ==
    /\ links = [n \in Names |-> NoNode]
    /\ symlink = PathOf(0, "A")
    /\ current_path = PathOf(0, "A")
    /\ visited = {}
    /\ pc = "idle"
    /\ result = NoResult
    /\ iters = 0

\* ------------------------------------------------------------- the dict
PEntry(k, op, v) == [key |-> k, op |-> op, value |-> v]

IndexOf(p, k) ==
    IF \E i \in 1..Len(p) : p[i].key = k
    THEN CHOOSE i \in 1..Len(p) : p[i].key = k
    ELSE 0

HasKey(p, k) == IndexOf(p, k) # 0

\* d[k] = (op, v): a key already in the dict keeps its place.
DictSet(p, k, op, v) ==
    IF HasKey(p, k)
    THEN [p EXCEPT ![IndexOf(p, k)] = PEntry(k, op, v)]
    ELSE Append(p, PEntry(k, op, v))

\* d.pop(k)
DictPop(p, k) ==
    LET i == IndexOf(p, k)
    IN  IF i = 0 THEN p
        ELSE [j \in 1..(Len(p) - 1) |-> IF j < i THEN p[j] ELSE p[j + 1]]

\* ------------------------------------------------------------------ reads
\* open() of a file under the storage path succeeds only through a directory.
DirReadable(kd) == kd \in {"dir", "linkdir"}

\* _load_from_file were it to trust the stored hash.
LoadUnverified(kd, fs, path) ==
    IF fs[path].t = "obj" /\ DirReadable(kd) THEN fs[path].value ELSE NoneV

\* _load_from_file: the value of the record returned, NoneV for None, or the
\* exception that escapes.
LoadFromFile(kd, fs, path) ==
    IF kd \in {"file", "linkfile"} THEN NotADirectoryError
    ELSE IF ~DirReadable(kd) THEN NoneV
    ELSE LET c == fs[path]
         IN  IF c.t = "none" THEN NoneV
             ELSE IF c.t = "garbage" THEN NoneV
             ELSE IF c.t = "nonobj" THEN TypeError
             ELSE IF c.key = Missing THEN NoneV
             ELSE IF c.value = Missing THEN NoneV
             ELSE IF c.key = NonText \/ c.value = NonText THEN AttributeError
             ELSE IF c.hash = Missing THEN NoneV
             ELSE IF c.hash = ComputeValueHash(c.key, c.value) THEN c.value
             ELSE NoneV

\* get(key) were it to answer from a staged update.
GetReadsStaged(p, kd, fs, key) ==
    IF HasKey(p, Str(key)) /\ p[IndexOf(p, Str(key))].op = "update"
    THEN p[IndexOf(p, Str(key))].value
    ELSE LoadFromFile(kd, fs, GetFilePath(key))

\* get(key) were it to answer None for a staged delete.
GetHidesDeleted(p, kd, fs, key) ==
    IF HasKey(p, Str(key)) /\ p[IndexOf(p, Str(key))].op = "delete"
    THEN NoneV
    ELSE LoadFromFile(kd, fs, GetFilePath(key))

\* get(key)
GetResult(p, kd, fs, key) ==
    IF HasKey(p, Str(key)) /\ p[IndexOf(p, Str(key))].op = "delete"
    THEN LoadFromFile(kd, fs, GetFilePath(key))
    ELSE LoadFromFile(kd, fs, GetFilePath(key))

\* ------------------------------------------------------------ staging
\* update(key, value)
UpdateDict(p, key, value) == DictSet(p, Str(key), "update", Str(value))

\* delete(key)
DeleteDict(p, key) == DictSet(p, Str(key), "delete", NoneV)

\* clear()
ClearDict(p) == <<PEntry(ClearKey, "clear", NoneV)>>

\* rollback() were it to keep what is staged.
RollbackKeeps(p) == p

\* rollback()
RollbackDict(p) == <<>>

\* ------------------------------------------------------------- commit
Outcome(r, p, kd, fs) == [raised |-> r, pending |-> p, kind |-> kd, files |-> fs]

\* shutil.rmtree(dir, ignore_errors=True): removes a real directory; on a
\* missing path, a file or a symlink it fails and the error is ignored.
RmTreeKind(kd) == IF kd = "dir" THEN "absent" ELSE kd
RmTreeFiles(kd, fs) == IF kd = "dir" THEN EmptyDir ELSE fs

\* Path.mkdir(parents=True, exist_ok=True) raises FileExistsError when the path
\* exists and is_dir(), which follows symlinks, is false.
MkdirRaises(kd) == kd \in {"file", "linkfile", "dangling"}
MkdirKind(kd) == IF kd = "absent" THEN "dir" ELSE kd

\* Path.exists() follows symlinks.
Exists(kd) == kd \in {"dir", "file", "linkdir", "linkfile"}
\* Path.is_file() follows symlinks.
IsFile(kd) == kd \in {"file", "linkfile"}
IsSymlink(kd) == kd \in {"linkdir", "linkfile", "dangling"}

\* commit(), the wipe: `if '__clear__' in self._pending_operations`.
WipeStep(p, kd, fs) ==
    IF ~HasKey(p, ClearKey) THEN Outcome(FALSE, p, kd, fs)
    ELSE LET kd1 == RmTreeKind(kd)
             fs1 == RmTreeFiles(kd, fs)
         IN  IF MkdirRaises(kd1) THEN Outcome(TRUE, p, kd1, fs1)
             ELSE Outcome(FALSE, DictPop(p, ClearKey), MkdirKind(kd1), fs1)

\* commit(), the directory check: unlink a file or a symlink that exists(),
\* then mkdir when nothing exists().
DirStep(p, kd, fs) ==
    LET unlinked == Exists(kd) /\ (IsFile(kd) \/ IsSymlink(kd))
        kd1 == IF unlinked THEN "absent" ELSE kd
        fs1 == IF unlinked THEN EmptyDir ELSE fs
    IN  IF Exists(kd1) THEN Outcome(FALSE, p, kd1, fs1)
        ELSE IF MkdirRaises(kd1) THEN Outcome(TRUE, p, kd1, fs1)
        ELSE Outcome(FALSE, p, MkdirKind(kd1), fs1)

\* One pass of the loop body on a staged operation.
ApplyOp(fs, e) ==
    LET path == GetFilePath(e.key)
    IN  IF e.op = "update"
        THEN [fs EXCEPT ![path] =
                 Obj(Str(e.key), Str(e.value),
                     ComputeValueHash(Str(e.key), Str(e.value)))]
        ELSE IF e.op = "delete" /\ fs[path].t # "none"
        THEN [fs EXCEPT ![path] = NoFile]
        ELSE fs

\* The first n staged operations applied in the dict's order.
RECURSIVE ApplyOps(_, _, _)
ApplyOps(fs, ops, n) ==
    IF n = 0 THEN fs ELSE ApplyOp(ApplyOps(fs, ops, n - 1), ops[n])

\* Whether the loop body does file I/O for e, which the OS may fail.
DoesIO(fs, e) ==
    \/ e.op = "update"
    \/ e.op = "delete" /\ fs[GetFilePath(e.key)].t # "none"

\* A write_text that fails leaves the file as it was (open failed) or
\* truncated (the write failed); an unlink that fails leaves the file.
FailedOp(fs, e, trunc) ==
    IF e.op = "update" /\ trunc
    THEN [fs EXCEPT ![GetFilePath(e.key)] = Garbage]
    ELSE fs

\* The loop were it to drop what is staged when an operation fails.
LoopStepDrops(p, kd, fs, failAt, trunc) ==
    IF failAt = 0 THEN Outcome(FALSE, <<>>, kd, ApplyOps(fs, p, Len(p)))
    ELSE Outcome(TRUE, <<>>, kd,
                 FailedOp(ApplyOps(fs, p, failAt - 1), p[failAt], trunc))

\* The loop and the final clear: failAt = 0 for no OS error, else the index of
\* the staged operation whose file I/O raises OSError.
LoopStep(p, kd, fs, failAt, trunc) ==
    IF failAt = 0 THEN Outcome(FALSE, <<>>, kd, ApplyOps(fs, p, Len(p)))
    ELSE Outcome(TRUE, p, kd,
                 FailedOp(ApplyOps(fs, p, failAt - 1), p[failAt], trunc))

\* The failures the OS can produce in the loop over p.
CanFailAt(p, fs, failAt, trunc) ==
    \/ failAt = 0 /\ ~trunc
    \/ /\ failAt \in 1..Len(p)
       /\ DoesIO(ApplyOps(fs, p, failAt - 1), p[failAt])
       /\ trunc => p[failAt].op = "update"

\* commit()
CommitOutcome(p, kd, fs, failAt, trunc) ==
    LET w == WipeStep(p, kd, fs)
    IN  IF w.raised THEN w
        ELSE LET d == DirStep(w.pending, w.kind, w.files)
             IN  IF d.raised THEN d
                 ELSE LoopStep(d.pending, d.kind, d.files, failAt, trunc)

\* The staged operations the loop of commit() would run over.
LoopOps(p, kd, fs) ==
    LET w == WipeStep(p, kd, fs)
    IN  IF w.raised THEN <<>>
        ELSE LET d == DirStep(w.pending, w.kind, w.files)
             IN  IF d.raised THEN <<>> ELSE d.pending

LoopFiles(p, kd, fs) ==
    LET w == WipeStep(p, kd, fs)
    IN  IF w.raised THEN fs
        ELSE DirStep(w.pending, w.kind, w.files).files

\* __enter__: unlink a symlink or a file (RuntimeError when that fails), mkdir.
EnterOutcome(p, kd, fs, unlinkOk) ==
    IF IsSymlink(kd) \/ IsFile(kd)
    THEN IF unlinkOk THEN Outcome(FALSE, p, "dir", EmptyDir)
         ELSE Outcome(TRUE, p, kd, fs)
    ELSE Outcome(FALSE, p, MkdirKind(kd), fs)

\* ------------------------------------------------- what the claims observe
\* The committed entry of key: the value of a record at the key's digest path
\* that carries the key and whose hash is the digest of key || value.
Entry(kd, fs, key) ==
    LET c == fs[GetFilePath(key)]
    IN  IF /\ DirReadable(kd)
           /\ c.t = "obj"
           /\ c.key = key
           /\ c.value \notin {Missing, NonText}
           /\ c.hash = SHA256(c.key \o c.value)
        THEN c.value
        ELSE NoneV

Entries(kd, fs) == [k \in Keys |-> Entry(kd, fs, k)]

Unstaged == "<unstaged>"
NoBase == [k \in Keys |-> Unstaged]
NoEntries == [k \in Keys |-> NoneV]

\* What the caller has staged, as the contract counts it: a store-wide wipe,
\* and per key the last update (its value) or delete (NoneV) staged after it.
NoIntent == [wipe |-> FALSE, ops |-> NoBase]
StageIntent(it, key, v) == [it EXCEPT !.ops[key] = v]
WipeIntent == [wipe |-> TRUE, ops |-> NoBase]

\* The entries the contract's commit leaves: the wipe first, then each key's
\* staged update or delete.
Applied(it, es) ==
    [k \in Keys |->
        IF it.ops[k] # Unstaged THEN it.ops[k]
        ELSE IF it.wipe THEN NoneV
        ELSE es[k]]

FirstBase(b, key, e) == IF b[key] = Unstaged THEN [b EXCEPT ![key] = e] ELSE b

\* A call: its name, whether it raised, and whether operations were staged when
\* it was made.
Call(op, raised, had) == [op |-> op, raised |-> raised, had |-> had]

\* No failed commit is waiting to be retried.
NoRetry == [on |-> FALSE, met |-> FALSE, kind |-> "absent", files |-> EmptyDir]

\* What a commit call makes of it: a call that raises on a batch not yet tried
\* records what one successful commit of that batch leaves; a call that raises
\* again keeps the record; a successful call right after marks it met.
RetryAfter(rt, raised, p, kd, fs) ==
    IF raised
    THEN IF rt.on THEN rt
         ELSE LET c == CommitOutcome(p, kd, fs, 0, FALSE)
              IN  [on |-> TRUE, met |-> FALSE, kind |-> c.kind, files |-> c.files]
    ELSE IF rt.on THEN [rt EXCEPT !.on = FALSE, !.met = TRUE]
    ELSE NoRetry

\* ------------------------------------------------------------ the state
\* The adapter is constructed with no staged operation, on a storage path that
\* holds nothing yet or an empty directory.
Init ==
    /\ kind \in {"absent", "dir"}
    /\ files = EmptyDir
    /\ pending = <<>>
    /\ scope = "out"
    /\ last = Call("new", FALSE, FALSE)
    /\ base = NoBase
    /\ intent = NoIntent
    /\ entryFiles = NoEntries
    /\ retry = NoRetry
    /\ WalkIdle

\* ---------------------------------------------------------- operations
\* update(key, value) were it to write the entry file at once.
UpdateWritesThrough(key, value) ==
    /\ Len(UpdateDict(pending, key, value)) <= MaxPending
    /\ pending' = UpdateDict(pending, key, value)
    /\ files' = ApplyOp(files, PEntry(key, "update", value))
    /\ base' = FirstBase(base, key, Entry(kind, files, key))
    /\ intent' = StageIntent(intent, key, value)
    /\ last' = Call("update", FALSE, pending # <<>>)
    /\ retry' = NoRetry
    /\ UNCHANGED <<kind, scope, entryFiles>>
    /\ UNCHANGED wvars

Update(key, value) ==
    /\ Len(UpdateDict(pending, key, value)) <= MaxPending
    /\ pending' = UpdateDict(pending, key, value)
    /\ base' = FirstBase(base, key, Entry(kind, files, key))
    /\ intent' = StageIntent(intent, key, value)
    /\ last' = Call("update", FALSE, pending # <<>>)
    /\ retry' = NoRetry
    /\ UNCHANGED wvars
    /\ UNCHANGED <<kind, files, scope, entryFiles>>

Delete(key) ==
    /\ Len(DeleteDict(pending, key)) <= MaxPending
    /\ pending' = DeleteDict(pending, key)
    /\ base' = FirstBase(base, key, Entry(kind, files, key))
    /\ intent' = StageIntent(intent, key, NoneV)
    /\ last' = Call("delete", FALSE, pending # <<>>)
    /\ retry' = NoRetry
    /\ UNCHANGED wvars
    /\ UNCHANGED <<kind, files, scope, entryFiles>>

Clear ==
    /\ pending' = ClearDict(pending)
    /\ intent' = WipeIntent
    /\ last' = Call("clear", FALSE, pending # <<>>)
    /\ retry' = NoRetry
    /\ UNCHANGED wvars
    /\ UNCHANGED <<kind, files, scope, base, entryFiles>>

Rollback ==
    /\ pending' = RollbackDict(pending)
    /\ base' = NoBase
    /\ intent' = NoIntent
    /\ last' = Call("rollback", FALSE, pending # <<>>)
    /\ retry' = NoRetry
    /\ UNCHANGED wvars
    /\ UNCHANGED <<kind, files, scope, entryFiles>>

Get(key) ==
    /\ last' = Call("get", GetResult(pending, kind, files, key) \in Raises,
                  pending # <<>>)
    /\ retry' = NoRetry
    /\ UNCHANGED wvars
    /\ UNCHANGED <<kind, files, pending, scope, base, intent, entryFiles>>

\* commit() called outside a scope; inside one, the scope's exit commits.
Commit(failAt, trunc) ==
    LET r == CommitOutcome(pending, kind, files, failAt, trunc)
    IN  /\ scope = "out"
        /\ CanFailAt(LoopOps(pending, kind, files),
                     LoopFiles(pending, kind, files), failAt, trunc)
        /\ pending' = r.pending
        /\ kind' = r.kind
        /\ files' = r.files
        /\ base' = NoBase
        /\ intent' = IF r.raised THEN intent ELSE NoIntent
        /\ last' = Call("commit", r.raised, pending # <<>>)
        /\ retry' = RetryAfter(retry, r.raised, pending, kind, files)
        /\ UNCHANGED wvars
        /\ UNCHANGED <<scope, entryFiles>>

Enter(unlinkOk) ==
    LET r == EnterOutcome(pending, kind, files, unlinkOk)
    IN  /\ scope = "out"
        /\ kind' = r.kind
        /\ files' = r.files
        /\ scope' = IF r.raised THEN "out" ELSE "in"
        /\ entryFiles' = IF r.raised THEN NoEntries ELSE Entries(r.kind, r.files)
        /\ last' = Call("enter", r.raised, pending # <<>>)
        /\ retry' = NoRetry
        /\ UNCHANGED wvars
        /\ UNCHANGED <<pending, base, intent>>

\* __exit__ with exc_type None: commit()
ExitNormal(failAt, trunc) ==
    LET r == CommitOutcome(pending, kind, files, failAt, trunc)
    IN  /\ scope = "in"
        /\ CanFailAt(LoopOps(pending, kind, files),
                     LoopFiles(pending, kind, files), failAt, trunc)
        /\ pending' = r.pending
        /\ kind' = r.kind
        /\ files' = r.files
        /\ base' = NoBase
        /\ intent' = IF r.raised THEN intent ELSE NoIntent
        /\ scope' = "out"
        /\ entryFiles' = NoEntries
        /\ last' = Call("exit", r.raised, pending # <<>>)
        /\ retry' = RetryAfter(retry, r.raised, pending, kind, files)
        /\ UNCHANGED wvars

\* __exit__ with an exception: rollback()
ExitError ==
    /\ scope = "in"
    /\ pending' = RollbackDict(pending)
    /\ base' = NoBase
    /\ intent' = NoIntent
    /\ scope' = "out"
    /\ entryFiles' = NoEntries
    /\ last' = Call("exit_error", FALSE, pending # <<>>)
    /\ retry' = NoRetry
    /\ UNCHANGED wvars
    /\ UNCHANGED <<kind, files>>

Next ==
    \/ \E k \in Keys, v \in Values : Update(k, v)
    \/ \E k \in Keys : Delete(k)
    \/ Clear
    \/ Rollback
    \/ \E k \in Keys : Get(k)
    \/ \E f \in 0..MaxPending, t \in BOOLEAN : Commit(f, t)
    \/ Enter(TRUE)
    \/ \E f \in 0..MaxPending, t \in BOOLEAN : ExitNormal(f, t)
    \/ ExitError

Spec == Init /\ [][Next]_vars

\* ------------------------------------------- the storage path, any kind
\* The adapter is constructed on a storage path that may be anything.
InitPath ==
    /\ kind \in PathKinds
    /\ files = EmptyDir
    /\ pending = <<>>
    /\ scope = "out"
    /\ last = Call("new", FALSE, FALSE)
    /\ base = NoBase
    /\ intent = NoIntent
    /\ entryFiles = NoEntries
    /\ retry = NoRetry
    /\ WalkIdle

SpecPath == InitPath /\ [][Next]_vars

\* --------------------------------------------- reads of any file content
\* The JSON fields a file written by anyone may hold.
FieldKeys == {Missing, NonText} \cup Keys
FieldValues == {Missing, NonText} \cup Values
FieldHashes == {Missing, NonText, SHA256("abc"), SHA256("0")}

AnyContent ==
    {NoFile, Garbage, NonObject}
        \cup {Obj(k, v, h) : k \in FieldKeys, v \in FieldValues, h \in FieldHashes}

\* The adapter is constructed on a directory in which one digest path holds
\* any content.
InitRead ==
    /\ kind = "dir"
    /\ \E k \in Keys, c \in AnyContent :
          files = [EmptyDir EXCEPT ![GetFilePath(k)] = c]
    /\ pending = <<>>
    /\ scope = "out"
    /\ last = Call("new", FALSE, FALSE)
    /\ base = NoBase
    /\ intent = NoIntent
    /\ entryFiles = NoEntries
    /\ retry = NoRetry
    /\ WalkIdle

NextRead ==
    \/ \E k \in Keys, v \in Values : Update(k, v)
    \/ \E k \in Keys : Delete(k)
    \/ Clear
    \/ Rollback
    \/ \E k \in Keys : Get(k)

SpecRead == InitRead /\ [][NextRead]_vars

\* ------------------------------------------------- an external writer
\* The hashes an external writer may put in place of a record's hash.
ForgedHashes(c) == ({SHA256(c.key \o v) : v \in Values} \cup {SHA256("0")}) \ {c.hash}

\* The stored hash of key's record is changed.
TamperHash(key, h) ==
    LET path == GetFilePath(key)
    IN  /\ DirReadable(kind)
        /\ files[path].t = "obj"
        /\ h \in ForgedHashes(files[path])
        /\ files' = [files EXCEPT ![path].hash = h]
        /\ UNCHANGED <<kind, pending, scope, last, base, intent, entryFiles, retry>>
        /\ UNCHANGED wvars

\* The stored value of key's record is changed, its hash left.
TamperValue(key, v) ==
    LET path == GetFilePath(key)
    IN  /\ DirReadable(kind)
        /\ files[path].t = "obj"
        /\ v # files[path].value
        /\ files' = [files EXCEPT ![path].value = v]
        /\ UNCHANGED <<kind, pending, scope, last, base, intent, entryFiles, retry>>
        /\ UNCHANGED wvars

NextTamper ==
    \/ \E k \in Keys, v \in Values : Update(k, v)
    \/ \E k \in Keys : Delete(k)
    \/ Clear
    \/ Rollback
    \/ \E k \in Keys : Get(k)
    \/ Commit(0, FALSE)
    \/ \E k \in Keys : \E h \in ForgedHashes(files[GetFilePath(k)]) :
          TamperHash(k, h)
    \/ \E k \in Keys, v \in Values : TamperValue(k, v)

SpecTamper == Init /\ [][NextTamper]_vars

\* -------------------------------------------------- is_circular_symlink
\* How many times "/../<directory>" fits in a path before the OS refuses it
\* as too long (ENAMETOOLONG).
MaxUps == 2

FileNotFoundError == "FileNotFoundError"
RuntimeError == "RuntimeError"
OSError == "OSError"
ReturnsTrue == "True"
ReturnsFalse == "False"

\* The forms of a link's target text.
Forms == {"abs", "rel", "up"}
Nodes == {NoNode, RealFile} \cup {Link(f, n) : f \in Forms, n \in Names}

\* The name the OS ends at when it follows symlinks from name, at most n times.
RECURSIVE ChainEnd(_, _, _)
ChainEnd(lk, name, n) ==
    IF n = 0 \/ lk[name].t # "link" THEN name
    ELSE ChainEnd(lk, lk[name].to, n - 1)

\* The OS refuses a path that is too long.
PathTooLong(p) == p.ups > MaxUps

\* Path.exists() follows symlinks and is false for a missing target and for
\* a loop of links; every "/../<directory>" leads back to the directory.
PathExists(lk, p) == lk[ChainEnd(lk, p.name, Cardinality(Names))].t = "file"

\* Path.is_symlink()
PathIsSymlink(lk, p) == lk[p.name].t = "link"

\* The input checks were the symlink test made first and alone.
InputCheckLinkOnly(lk, p) ==
    IF ~PathIsSymlink(lk, p) THEN RuntimeError ELSE "ok"

\* The two input checks.
InputCheck(lk, p) ==
    IF ~PathExists(lk, p) /\ ~PathIsSymlink(lk, p) THEN FileNotFoundError
    ELSE IF ~PathIsSymlink(lk, p) THEN RuntimeError
    ELSE "ok"

\* readlink() of cur, made absolute: an absolute target as it is, a relative
\* one joined to cur's parent, which pathlib does not normalise: a leading
\* ".." stays in the text.
TargetPath(lk, cur) ==
    LET nd == lk[cur.name]
    IN  IF nd.form = "abs" THEN PathOf(0, nd.to)
        ELSE IF nd.form = "rel" THEN PathOf(cur.ups, nd.to)
        ELSE PathOf(cur.ups + 1, nd.to)

\* The store's state, which a call of is_circular_symlink leaves alone.
svars == <<kind, files, pending, scope, last, base, intent, entryFiles, retry>>

\* The call, up to the loop.
IsCircularSymlink(start) ==
    LET c == InputCheck(links, start)
    IN  /\ pc = "idle"
        /\ symlink' = start
        /\ current_path' = start
        /\ visited' = {}
        /\ iters' = 0
        /\ pc' = IF c = "ok" THEN "loop" ELSE "done"
        /\ result' = IF c = "ok" THEN NoResult ELSE c
        /\ UNCHANGED <<links, svars>>

\* One iteration of `while True`. readlink() is called on symlinks only and
\* raises no RuntimeError.
Iterate ==
    LET target_path == TargetPath(links, current_path)
        stop(r) == /\ pc' = "done"
                   /\ result' = r
                   /\ UNCHANGED current_path
    IN  /\ pc = "loop"
        /\ iters' = iters + 1
        /\ IF target_path \in visited
           THEN stop(ReturnsTrue) /\ UNCHANGED visited
           ELSE /\ visited' = visited \cup {target_path}
                /\ IF PathTooLong(target_path) THEN stop(OSError)
                   ELSE IF /\ ~PathExists(links, target_path)
                           /\ ~PathIsSymlink(links, target_path)
                   THEN stop(ReturnsFalse)
                   ELSE IF ~PathIsSymlink(links, target_path)
                   THEN stop(ReturnsFalse)
                   ELSE /\ current_path' = target_path
                        /\ UNCHANGED <<pc, result>>
        /\ UNCHANGED <<links, symlink, svars>>

\* Any directory of symlinks, real files and missing names; no call made yet.
InitWalk ==
    /\ kind = "dir"
    /\ files = EmptyDir
    /\ pending = <<>>
    /\ scope = "out"
    /\ last = Call("new", FALSE, FALSE)
    /\ base = NoBase
    /\ intent = NoIntent
    /\ entryFiles = NoEntries
    /\ retry = NoRetry
    /\ links \in [Names -> Nodes]
    /\ symlink = PathOf(0, "A")
    /\ current_path = PathOf(0, "A")
    /\ visited = {}
    /\ pc = "idle"
    /\ result = NoResult
    /\ iters = 0

NextWalk ==
    \/ \E n \in Names : IsCircularSymlink(PathOf(0, n))
    \/ Iterate

SpecWalk == InitWalk /\ [][NextWalk]_vars

\* ------------------------------------------------------------- claims
GetNow(key) == GetResult(pending, kind, files, key)
GetNext(key) == GetResult(pending', kind', files', key)
EntriesNow == Entries(kind, files)
EntriesNext == Entries(kind', files')

StagedOp(p, key) == IF HasKey(p, key) THEN p[IndexOf(p, key)].op ELSE "none"

Committed(l) == l.op \in {"commit", "exit"} /\ ~l.raised

\* C1 (as claimed): from an empty pending set, update(k, v); commit(); get(k)
\* returns v, for every text key k, the text "__clear__" included.
C1_RoundTrip ==
    [][\A k \in Keys, v \in Values :
         (pending = <<PEntry(k, "update", v)>> /\ Committed(last'))
             => GetNext(k) = v]_vars

\* C2: while an update of k staged since the last commit call is pending,
\* get(k) returns the entry k had before it was staged (None when it had none),
\* not the staged value.
C2_StagedIsolation ==
    \A k \in Keys :
        (StagedOp(pending, k) = "update" /\ base[k] # Unstaged)
            => GetNow(k) = base[k]

C2_Witness ==
    \E k \in Keys :
        /\ StagedOp(pending, k) = "update"
        /\ base[k] \in Values
        /\ pending[IndexOf(pending, k)].value # base[k]
        /\ last.op = "get"

C4_ScopedTransaction ==
    [][/\ last'.op = "exit_error" => EntriesNext = entryFiles
       /\ (last'.op = "exit" /\ ~last'.raised)
            => (EntriesNext = Applied(intent, EntriesNow) /\ pending' = <<>>)]_vars

\* C5 (as claimed): after a scope has exited with an error propagating to the
\* caller (raised in the body, or by the commit of a normal exit), nothing is
\* staged.
C5_NoLeak ==
    (last.op = "exit_error" \/ (last.op = "exit" /\ last.raised))
        => pending = <<>>

\* C6 (as claimed): a successful commit of a batch staged as updates/deletes,
\* clear(), updates/deletes leaves exactly the entries of the updates staged
\* after the clear().
C6_ClearSemantics ==
    [][(Committed(last') /\ intent.wipe)
          => EntriesNext = Applied(intent, NoEntries)]_vars

\* C7: rollback() empties the pending set and leaves the disk as it is, get(k)
\* then returns for every key what it returned before the key was staged, and
\* a commit() right after it changes no entry.
C7_Rollback ==
    [][/\ last'.op = "rollback" =>
            /\ pending' = <<>>
            /\ files' = files /\ kind' = kind
            /\ \A k \in Keys :
                 GetNext(k) = IF base[k] # Unstaged THEN base[k] ELSE GetNow(k)
       /\ (last.op = "rollback" /\ last'.op = "commit") =>
            /\ ~last'.raised
            /\ files' = files
            /\ EntriesNext = EntriesNow]_vars

C7_Witness ==
    /\ last.op = "rollback"
    /\ last.had
    /\ \E k \in Keys : Entry(kind, files, k) # NoneV

\* C8 (as claimed): when __enter__ or commit() ends, whatever the storage
\* path was before, it is a real directory.
C8_DirectoryRepair ==
    last.op \in {"enter", "commit", "exit"} => kind = "dir"

\* A file content no valid record: no file, no JSON, no object, a field
\* missing or no text, or a hash that is not the digest of key || value.
BadContent(c) ==
    \/ c.t \in {"none", "garbage", "nonobj"}
    \/ c.key \in {Missing, NonText}
    \/ c.value \in {Missing, NonText}
    \/ c.hash \in {Missing, NonText}
    \/ c.hash # SHA256(c.key \o c.value)

\* C9 (as claimed): whatever no-record content the file at k's digest path
\* has, get(k) returns None and does not raise.
C9_AbsenceAbsorption ==
    \A k \in Keys :
        BadContent(files[GetFilePath(k)]) => GetNow(k) = NoneV

\* A record with text fields whose hash differs from the digest of key || value.
Tampered(c) ==
    /\ c.t = "obj"
    /\ c.key \notin {Missing, NonText}
    /\ c.value \notin {Missing, NonText}
    /\ c.hash # SHA256(c.key \o c.value)

\* C10: once the hash or the value of k's committed record has been changed so
\* that the hash is not the digest of key || value, get(k) returns None,
\* whatever is staged.
C10_TamperDetection ==
    \A k \in Keys :
        Tampered(files[GetFilePath(k)]) => GetNow(k) = NoneV

C10_Witness ==
    \E k \in Keys :
        /\ Tampered(files[GetFilePath(k)])
        /\ StagedOp(pending, k) = "delete"
        /\ last.op = "get"

\* The staged file operations in staging order; the wipe marker is no file
\* operation.
StagedOrder(p) == SelectSeq(p, LAMBDA e : e.op # "clear")

\* The entries after the wipe (when one was staged) and the first n staged
\* operations, as the contract counts them, from the entries es.
PrefixEntries(wipe, ops, es, n) ==
    [k \in Keys |->
        IF \E i \in 1..n : ops[i].key = k
        THEN LET e == ops[CHOOSE i \in 1..n : ops[i].key = k]
             IN  IF e.op = "update" THEN e.value ELSE NoneV
        ELSE IF wipe THEN NoneV
        ELSE es[k]]

\* A wipe was staged and this commit call has still to perform it.
WipeDue(it, p) == it.wipe /\ HasKey(p, ClearKey)

\* C11 (as claimed): a commit that raises on the file of a staged operation
\* leaves the entries of a strict prefix of the batch: the operations before
\* the failing one applied, the failing one and the later ones not applied.
C11_CommitPrefix ==
    [][(last'.op \in {"commit", "exit"} /\ last'.raised)
          => \E n \in 0..(Len(StagedOrder(pending)) - 1) :
                EntriesNext = PrefixEntries(WipeDue(intent, pending),
                                            StagedOrder(pending),
                                            EntriesNow, n)]_vars

\* C12: a commit() called right after one or more commit calls that failed in
\* the loop, itself meeting no I/O error, leaves the storage path and every
\* file as one successful commit() of the batch first tried would have left
\* them, and nothing staged.
C12_RetrySafety ==
    retry.met => (files = retry.files /\ kind = retry.kind /\ pending = <<>>)

C12_Witness ==
    /\ retry.met
    /\ last.op = "commit"
    /\ \E k \in Keys : Entry(kind, files, k) # NoneV

StagingCalls == {"update", "delete", "clear", "rollback"}

\* C13: update, delete, clear and rollback change the pending set only: the
\* storage path and every file under it stay as they are; a file or an entry
\* changes only in a commit (a scope's normal exit commits).
C13_StagingNoIO ==
    [][/\ last'.op \in StagingCalls => (files' = files /\ kind' = kind)
       /\ (files' # files \/ EntriesNext # EntriesNow)
             => last'.op \in {"commit", "exit"}]_vars

C13_Witness ==
    /\ last.op \in StagingCalls
    /\ pending # <<>>
    /\ \E k \in Keys :
          /\ StagedOp(pending, k) \in {"update", "delete"}
          /\ Entry(kind, files, k) # NoneV
          /\ Entry(kind, files, k) # intent.ops[k]

\* C14 (as claimed): the pending set holds at most one operation per key, and
\* a successful commit leaves each key staged by update/delete calls with the
\* value of its last call when that was an update, with no entry when it was a
\* delete; for every text key, "__clear__" included.
C14_LastWriteWins ==
    [][/\ \A i, j \in 1..Len(pending') :
            pending'[i].key = pending'[j].key => i = j
       /\ Committed(last') =>
            \A k \in Keys :
                intent.ops[k] # Unstaged => EntriesNext[k] = intent.ops[k]]_vars

\* C18 (as claimed): a successful commit of a batch staged by update and
\* delete calls only, with no clear() since the last commit or rollback,
\* leaves the entry of every key without a staged operation as it was; for
\* every text key staged, "__clear__" included.
C18_CommitFrame ==
    [][(Committed(last') /\ ~intent.wipe) =>
          \A k \in Keys :
              intent.ops[k] = Unstaged => EntriesNext[k] = EntriesNow[k]]_vars

\* C19 (as claimed): when get(k) returns a value, the record at k's digest
\* path carries the key k; a hash-valid record of another key found there is
\* read as absent.
C19_KeyBinding ==
    \A k \in Keys :
        GetNow(k) \notin ({NoneV} \cup Raises)
            => files[GetFilePath(k)].key = Str(k)

\* Following link targets from name never ends: it comes back to a path
\* already resolved.
Circular(lk, name) == lk[ChainEnd(lk, name, Cardinality(Names))].t = "link"

\* The links in the chain that starts at name.
ChainLinks(lk, name) ==
    {n \in {ChainEnd(lk, name, i) : i \in 0..Cardinality(Names)} :
        lk[n].t = "link"}

\* C15 (as claimed): called on a symlink, is_circular_symlink returns true
\* when following the link targets from it revisits a resolved path, and
\* false when the chain ends at a real file or directory or at a missing
\* target.
C15_CycleResult ==
    (pc = "done" /\ PathIsSymlink(links, symlink))
        => result = IF Circular(links, symlink.name) THEN ReturnsTrue
                    ELSE ReturnsFalse

\* C16 (as claimed): the loop begins at most as many iterations as the chain
\* has links, plus one, relative targets included.
C16_WalkBound ==
    iters <= Cardinality(ChainLinks(links, symlink.name)) + 1

\* C17: a path that neither exists nor is a symlink raises FileNotFoundError,
\* one that exists and is no symlink raises RuntimeError, both before any link
\* is read; a symlink, dangling and circular ones included, raises neither.
C17_InputErrors ==
    pc # "idle" =>
        /\ links[symlink.name].t = "missing" =>
              (result = FileNotFoundError /\ iters = 0 /\ visited = {})
        /\ links[symlink.name].t = "file" =>
              (result = RuntimeError /\ iters = 0 /\ visited = {})
        /\ links[symlink.name].t = "link" =>
              result \notin {FileNotFoundError, RuntimeError}

C17_Witness ==
    /\ pc = "done"
    /\ result = FileNotFoundError
    /\ \E n \in Names : links[n].t = "link" /\ links[n].to = symlink.name

====
